---- MODULE Spec2Model ----
(***************************************************************************)
(* Invoice agent: extraction of a transaction record from a model reply    *)
(* (src/tools.py extract_transaction_details), the SQLite ledger           *)
(* (setup_database, create_invoice, get_ledger_data) and the               *)
(* assistant -> tools -> assistant graph of src/main.py.                   *)
(*                                                                         *)
(* Text is modelled as sequences: a reply is a sequence of lexemes (fence, *)
(* language tag, newline, space, JSON lexemes), a Python str is a sequence *)
(* of characters.  Numbers are fixed point: the integer n stands for       *)
(* n / Denominator.  Optional values are sequences: << >> is None.         *)
(***************************************************************************)
EXTENDS Integers, Sequences, FiniteSets, TLC

\* ---------------------------------------------------------------- bounds
Denominator == 2        \* resolution of fractional numbers
MaxToolCalls == 2       \* tool calls explored in one invocation
MaxRows == 2            \* ledger rows explored
MaxClock == 1           \* seconds of wall clock explored
NumCalls == 2           \* create_invoice calls running at the same time
MaxNameLen == 19        \* longest company name explored

None == << >>
Some(x) == << x >>

\* ------------------------------------------------------------ sequences
Last(s) == s[Len(s)]
Front(s) == SubSeq(s, 1, Len(s) - 1)

RECURSIVE LStrip(_, _)
LStrip(s, ws) == IF s # << >> /\ Head(s) \in ws THEN LStrip(Tail(s), ws) ELSE s

RECURSIVE RStrip(_, _)
RStrip(s, ws) == IF s # << >> /\ Last(s) \in ws THEN RStrip(Front(s), ws) ELSE s

\* str.strip()
Strip(s, ws) == RStrip(LStrip(s, ws), ws)

\* ---------------------------------------------------------- JSON values
NoVal == [ty |-> "none", s |-> << >>, n |-> 0]
StrVal(s) == [ty |-> "str", s |-> s, n |-> 0]
NumVal(n) == [ty |-> "num", s |-> << >>, n |-> n]
NullVal == [ty |-> "null", s |-> << >>, n |-> 0]

\* ------------------------------------------------------- reply lexemes
Lex(t) == [t |-> t, k |-> "", v |-> NoVal]
Fence == Lex("fence")      \* three backticks
Tag == Lex("tag")          \* a language tag such as json
NL == Lex("nl")            \* "\n"
SP == Lex("sp")            \* " "
LBrace == Lex("lbrace")
RBrace == Lex("rbrace")
Array == Lex("array")      \* the JSON document []
Null == Lex("null")        \* the JSON document null
Junk == Lex("junk")        \* text that is no JSON lexeme
Member(k, v) == [t |-> "member", k |-> k, v |-> v]   \* "k": v with its comma

ReplySpace == {NL, SP}
CharSpace == {" "}

\* ---------------------------------------------- fence handling, parsing
HasNL(s) == \E i \in 1..Len(s) : s[i] = NL
FirstNL(s) == CHOOSE i \in 1..Len(s) : s[i] = NL /\ \A j \in 1..(i - 1) : s[j] # NL
LastNL(s) == CHOOSE i \in 1..Len(s) : s[i] = NL /\ \A j \in (i + 1)..Len(s) : s[j] # NL

\* result.split("\n", 1): parts[1] if len(parts) > 1 else ""
AfterFirstLine(s) == IF HasNL(s) THEN SubSeq(s, FirstNL(s) + 1, Len(s)) ELSE << >>

\* result.rsplit("\n", 1)[0] if "\n" in result else result
BeforeLastLine(s) == IF HasNL(s) THEN SubSeq(s, 1, LastNL(s) - 1) ELSE s

\* tools.py 88-91
StripFence(result) ==
    IF result # << >> /\ Head(result) = Fence
    THEN BeforeLastLine(AfterFirstLine(result))
    ELSE result

IsSpace(x) == x \in ReplySpace
NotSpace(x) == ~IsSpace(x)

\* json.loads: [kind |-> "error"] is JSONDecodeError, "object" a dict with its
\* members in document order, "other" a document that is no dict
JsonLoads(text) ==
    LET lex == SelectSeq(text, NotSpace)
        n == Len(lex)
    IN  IF n = 1 /\ lex[1] \in {Array, Null}
        THEN [kind |-> "other", members |-> << >>]
        ELSE IF n >= 2 /\ lex[1] = LBrace /\ lex[n] = RBrace
                /\ \A i \in 2..(n - 1) : lex[i].t = "member"
        THEN [kind |-> "object", members |-> SubSeq(lex, 2, n - 1)]
        ELSE [kind |-> "error", members |-> << >>]

\* dict.get(key, default); a repeated key keeps its last value
DictGet(members, key, default) ==
    LET idx == {i \in 1..Len(members) : members[i].k = key}
    IN  IF idx = {} THEN default
        ELSE members[CHOOSE i \in idx : \A j \in idx : j <= i].v

\* ------------------------------------------------------ str, float, int
DigitChars == <<"0", "1", "2", "3", "4", "5", "6", "7", "8", "9">>
IsDigit(c) == \E d \in 1..10 : DigitChars[d] = c
DigitVal(c) == (CHOOSE d \in 1..10 : DigitChars[d] = c) - 1

RECURSIVE DecVal(_)
DecVal(s) == IF s = << >> THEN 0 ELSE 10 * DecVal(Front(s)) + DigitVal(Last(s))

IsDecimal(s) == s # << >> /\ \A i \in 1..Len(s) : IsDigit(s[i])

\* str(x) of a JSON string or of None
PyStr(v) ==
    CASE v.ty = "str" -> v.s
      [] v.ty = "null" -> <<"N", "o", "n", "e">>

Trunc(n) == IF n >= 0 THEN n \div Denominator ELSE -((-n) \div Denominator)

\* str(e) of the exceptions float() and int() raise
FloatValueError == "could not convert string to float"
FloatTypeError == "float() argument must be a string or a real number"
IntValueError == "invalid literal for int() with base 10"
IntTypeError == "int() argument must be a string or a real number"

\* float(x): the value in 1/Denominator units, or the exception raised with
\* its message
PyFloat(v) ==
    CASE v.ty = "num" -> [exc |-> "none", n |-> v.n, msg |-> ""]
      [] v.ty = "str" ->
            IF IsDecimal(Strip(v.s, CharSpace))
            THEN [exc |-> "none", n |-> DecVal(Strip(v.s, CharSpace)) * Denominator,
                  msg |-> ""]
            ELSE [exc |-> "ValueError", n |-> 0,
                  msg |-> FloatValueError]
      [] v.ty = "null" ->
            [exc |-> "TypeError", n |-> 0,
             msg |-> FloatTypeError]

\* int(x): the integer, or the exception raised with its message
PyInt(v) ==
    CASE v.ty = "num" -> [exc |-> "none", n |-> Trunc(v.n), msg |-> ""]
      [] v.ty = "str" ->
            IF IsDecimal(Strip(v.s, CharSpace))
            THEN [exc |-> "none", n |-> DecVal(Strip(v.s, CharSpace)), msg |-> ""]
            ELSE [exc |-> "ValueError", n |-> 0,
                  msg |-> IntValueError]
      [] v.ty = "null" ->
            [exc |-> "TypeError", n |-> 0,
             msg |-> IntTypeError]

\* ------------------------------------------- extract_transaction_details
InvalidJson == "Invalid JSON from model"
DataValidation == "Data validation error"

ExtractOk(c, a, p, u) ==
    [company_name |-> c, amount_paid |-> a, product_name |-> p, num_units |-> u,
     success |-> TRUE, function_call_success |-> TRUE, error_message |-> None]

\* an exception: its class and str(e)
Exc(type, msg) == [type |-> type, msg |-> msg]

CompanyMissing == "company_name is missing"
NoJsonDocument == "Expecting value"
NoGetAttribute == "object has no attribute 'get'"

\* the failure dict with function_call_success left set
ExtractFailedFlagLeft(msg, e) ==
    [company_name |-> << >>, amount_paid |-> 0, product_name |-> << >>, num_units |-> 0,
     success |-> FALSE, function_call_success |-> TRUE,
     error_message |-> Some(<< msg, e.msg >>)]

\* the failure dict; error_message is f"{msg}: {e}", kept as its two parts
ExtractFailed(msg, e) ==
    [company_name |-> << >>, amount_paid |-> 0, product_name |-> << >>, num_units |-> 0,
     success |-> FALSE, function_call_success |-> FALSE,
     error_message |-> Some(<< msg, e.msg >>)]

Returned(d) == [raised |-> "none", ret |-> Some(d)]
Raised(e) == [raised |-> e.type, ret |-> None]

\* the except clauses in the other order: JSONDecodeError is a ValueError
ExtractHandlersValueErrorFirst(e) ==
    CASE e.type \in {"JSONDecodeError", "ValueError", "TypeError"} ->
            Returned(ExtractFailed(DataValidation, e))
      [] OTHER -> Raised(e)

\* the except clauses of tools.py 116-135, for an exception raised in the try
\* body: JSONDecodeError first, then (ValueError, TypeError); others escape
ExtractHandlers(e) ==
    CASE e.type = "JSONDecodeError" -> Returned(ExtractFailed(InvalidJson, e))
      [] e.type \in {"ValueError", "TypeError"} -> Returned(ExtractFailed(DataValidation, e))
      [] OTHER -> Raised(e)

\* a failed conversion of num_units hands back the fields parsed before it
ExtractFieldsPartial(members) ==
    LET company_name == Strip(PyStr(DictGet(members, "company_name", StrVal(<< >>))), CharSpace)
        product_name == Strip(PyStr(DictGet(members, "product_name", StrVal(<< >>))), CharSpace)
        amount == PyFloat(DictGet(members, "amount_paid", NumVal(0)))
        units == PyInt(DictGet(members, "num_units", NumVal(0)))
        failed == ExtractFailed(DataValidation, Exc(units.exc, units.msg))
    IN  IF amount.exc # "none" THEN ExtractHandlers(Exc(amount.exc, amount.msg))
        ELSE IF units.exc # "none"
        THEN Returned([failed EXCEPT !.company_name = company_name,
                                     !.amount_paid = amount.n,
                                     !.product_name = product_name])
        ELSE IF company_name = << >> THEN ExtractHandlers(Exc("ValueError", CompanyMissing))
        ELSE Returned(ExtractOk(company_name, amount.n, product_name, units.n))

\* the company_name check ahead of the conversions
ExtractFieldsCompanyFirst(members) ==
    LET company_name == Strip(PyStr(DictGet(members, "company_name", StrVal(<< >>))), CharSpace)
        product_name == Strip(PyStr(DictGet(members, "product_name", StrVal(<< >>))), CharSpace)
        amount == PyFloat(DictGet(members, "amount_paid", NumVal(0)))
        units == PyInt(DictGet(members, "num_units", NumVal(0)))
    IN  IF company_name = << >> THEN ExtractHandlers(Exc("ValueError", CompanyMissing))
        ELSE IF amount.exc # "none" THEN ExtractHandlers(Exc(amount.exc, amount.msg))
        ELSE IF units.exc # "none" THEN ExtractHandlers(Exc(units.exc, units.msg))
        ELSE Returned(ExtractOk(company_name, amount.n, product_name, units.n))

\* tools.py 95-115, for the parsed dict
ExtractFields(members) ==
    LET company_name == Strip(PyStr(DictGet(members, "company_name", StrVal(<< >>))), CharSpace)
        product_name == Strip(PyStr(DictGet(members, "product_name", StrVal(<< >>))), CharSpace)
        amount == PyFloat(DictGet(members, "amount_paid", NumVal(0)))
        units == PyInt(DictGet(members, "num_units", NumVal(0)))
    IN  IF amount.exc # "none" THEN ExtractHandlers(Exc(amount.exc, amount.msg))
        ELSE IF units.exc # "none" THEN ExtractHandlers(Exc(units.exc, units.msg))
        ELSE IF company_name = << >> THEN ExtractHandlers(Exc("ValueError", CompanyMissing))
        ELSE Returned(ExtractOk(company_name, amount.n, product_name, units.n))

\* tools.py 83-135; llm is the outcome of llm.ainvoke: an exception or a reply
ExtractTransactionDetails(llm) ==
    IF llm.raised # "none" THEN ExtractHandlers(Exc(llm.raised, "service unavailable"))
    ELSE LET data == JsonLoads(StripFence(Strip(llm.content, ReplySpace)))
         IN  CASE data.kind = "error" -> ExtractHandlers(Exc("JSONDecodeError", NoJsonDocument))
               [] data.kind = "other" -> ExtractHandlers(Exc("AttributeError", NoGetAttribute))
               [] data.kind = "object" -> ExtractFields(data.members)

\* ------------------------------------------------ replies of the model
\* A document is described by what the model put in it: for an object, each
\* field is absent (None) or present with a value (Some(v)).
CompanyVals == {StrVal(<< >>), StrVal(<<" ">>), StrVal(<<"A">>), StrVal(<<" ", "A", " ">>),
                NullVal}
AmountVals == {NumVal(0), NumVal(-Denominator), NumVal(Denominator + 1),
               StrVal(<<"7">>), StrVal(<<"x">>), NullVal}
ProductVals == {StrVal(<< >>), StrVal(<<"G">>)}
UnitVals == {NumVal(0), NumVal(2 * Denominator), NumVal(Denominator + 1),
             StrVal(<<"x">>), NullVal}

Opt(S) == {None} \cup {Some(v) : v \in S}

ObjectDocs ==
    [kind : {"object"}, layout : {"line", "lines"},
     company_name : Opt(CompanyVals), amount_paid : Opt(AmountVals),
     product_name : Opt(ProductVals), num_units : Opt(UnitVals)]

OtherDoc(kind) ==
    [kind |-> kind, layout |-> "line", company_name |-> None, amount_paid |-> None,
     product_name |-> None, num_units |-> None]

Docs == ObjectDocs \cup {OtherDoc(k) : k \in {"array", "null", "junk", "empty"}}

FieldMember(doc, k) == IF doc[k] = None THEN << >> ELSE << Member(k, doc[k][1]) >>

DocMembers(doc) ==
    FieldMember(doc, "company_name") \o FieldMember(doc, "amount_paid")
        \o FieldMember(doc, "product_name") \o FieldMember(doc, "num_units")

RECURSIVE OnePerLine(_)
OnePerLine(lexemes) ==
    IF lexemes = << >> THEN << >>
    ELSE IF Len(lexemes) = 1 THEN lexemes
    ELSE << Head(lexemes), NL >> \o OnePerLine(Tail(lexemes))

\* the text of a document
Body(doc) ==
    CASE doc.kind = "array" -> << Array >>
      [] doc.kind = "null" -> << Null >>
      [] doc.kind = "junk" -> << LBrace, Junk >>
      [] doc.kind = "empty" -> << >>
      [] doc.kind = "object" ->
            IF doc.layout = "line"
            THEN << LBrace, SP >> \o DocMembers(doc) \o << RBrace >>
            ELSE OnePerLine(<< LBrace >> \o DocMembers(doc) \o << RBrace >>)

Wraps == {"bare", "fenced", "tagged", "padded", "unclosed"}
ClosedWraps == {"fenced", "tagged", "padded"}

\* the reply around a body
Wrap(body, wrap) ==
    CASE wrap = "bare" -> body
      [] wrap = "fenced" -> << Fence, NL >> \o body \o << NL, Fence >>
      [] wrap = "tagged" -> << Fence, Tag, NL >> \o body \o << NL, Fence >>
      [] wrap = "padded" -> << NL, Fence, Tag, NL >> \o body \o << NL, Fence, SP, NL >>
      [] wrap = "unclosed" -> << Fence, Tag, NL >> \o body

Reply(doc, wrap) == [raised |-> "none", content |-> Wrap(Body(doc), wrap)]
ServiceFailure == [raised |-> "ServiceError", content |-> << >>]

\* ------------------------------------------------------------ the ledger
\* an id that does not grow with the table
NextRowIdConstant(rows) == 1

\* a row of table Ledger (tools.py 39-48); ids are rowids: INTEGER PRIMARY KEY
NextRowId(rows) ==
    IF rows = << >> THEN 1
    ELSE 1 + (CHOOSE m \in {rows[i].id : i \in 1..Len(rows)} :
                    \A i \in 1..Len(rows) : rows[i].id <= m)

\* the row INSERT writes (tools.py 159-165): float(amount_paid), int(num_units),
\* timestamp DEFAULT CURRENT_TIMESTAMP
NewRow(rows, now, company_name, amount_paid, product_name, num_units) ==
    [id |-> NextRowId(rows),
     company_name |-> company_name,
     amount_paid |-> PyFloat(NumVal(amount_paid)).n,
     product_name |-> product_name,
     num_units |-> PyInt(NumVal(num_units * Denominator)).n,
     timestamp |-> now]

InvoiceOk(id, ts) ==
    [invoice_id |-> Some(id), success |-> TRUE, invoice_success |-> TRUE,
     error_message |-> None, timestamp |-> Some(ts)]

InvoiceFailed ==
    [invoice_id |-> None, success |-> FALSE, invoice_success |-> FALSE,
     error_message |-> Some("Database error"), timestamp |-> None]

\* where sqlite3 raises in create_invoice: nowhere, or in connect (156), in the
\* INSERT (159), in commit (166), in the SELECT after the commit (169)
StorageFaults == {"none", "connect", "insert", "commit", "readback"}

\* INSERT OR REPLACE into a table that keeps one row
CreateInvoiceReplaces(rows, hasTable, now, company_name, amount_paid, product_name, num_units, fault) ==
    LET row == NewRow(<< >>, now, company_name, amount_paid, product_name, num_units)
    IN  IF fault \in {"connect", "insert", "commit"} \/ ~hasTable
        THEN [rows |-> rows, result |-> InvoiceFailed]
        ELSE IF fault = "readback"
        THEN [rows |-> << row >>, result |-> InvoiceFailed]
        ELSE [rows |-> << row >>, result |-> InvoiceOk(row.id, row.timestamp)]

\* tools.py 155-191: the rows afterwards and the dict returned.  A row not yet
\* committed is rolled back by conn.close(); a committed row stays.
CreateInvoice(rows, hasTable, now, company_name, amount_paid, product_name, num_units, fault) ==
    LET row == NewRow(rows, now, company_name, amount_paid, product_name, num_units)
    IN  IF fault \in {"connect", "insert", "commit"} \/ ~hasTable
        THEN [rows |-> rows, result |-> InvoiceFailed]
        ELSE IF fault = "readback"
        THEN [rows |-> Append(rows, row), result |-> InvoiceFailed]
        ELSE [rows |-> Append(rows, row), result |-> InvoiceOk(row.id, row.timestamp)]

\* CREATE TABLE without IF NOT EXISTS: an existing table is an error
CreateTablePlain(hasTable, rows) ==
    [hasTable |-> TRUE, rows |-> rows, error |-> hasTable]

\* tools.py 39-48: CREATE TABLE IF NOT EXISTS Ledger leaves an existing table
\* and its rows alone
CreateTableIfNotExists(hasTable, rows) ==
    [hasTable |-> TRUE, rows |-> rows, error |-> FALSE]

\* tools.py 36-50: the table and rows afterwards, and whether sqlite3.Error
\* left the function (setup_database catches nothing)
SetupDatabaseCall(hasTable, rows, fault) ==
    LET made == CreateTableIfNotExists(hasTable, rows)
    IN  IF fault \/ made.error
        THEN [hasTable |-> hasTable, rows |-> rows, raised |-> TRUE]
        ELSE [hasTable |-> made.hasTable, rows |-> made.rows, raised |-> FALSE]

\* ORDER BY timestamp DESC as SQLite's sorter does it: rows of one timestamp
\* stay in scan (rowid) order
RECURSIVE InsertByTimestampDesc(_, _)
InsertByTimestampDesc(sorted, row) ==
    IF sorted = << >> THEN << row >>
    ELSE IF Head(sorted).timestamp >= row.timestamp
    THEN << Head(sorted) >> \o InsertByTimestampDesc(Tail(sorted), row)
    ELSE << row >> \o sorted

RECURSIVE OrderByTimestampDesc(_)
OrderByTimestampDesc(rows) ==
    IF rows = << >> THEN << >>
    ELSE InsertByTimestampDesc(OrderByTimestampDesc(Front(rows)), Last(rows))

\* ------------------------------------------------------ the ledger report
ColumnWidth == 18       \* {row[1]:<18}
ProductWidth == 8       \* {row[3]:<8}

Name(n) == [i \in 1..n |-> "A"]
Spaces(n) == [i \in 1..n |-> " "]

\* format(s, "<width"): left-aligned in a field of at least width characters
FormatLeft(s, width) == IF Len(s) >= width THEN s ELSE s \o Spaces(width - Len(s))

\* the text columns of a report line (tools.py 223, main.py 159)
ReportLine(row) ==
    [id |-> row.id,
     company_name |-> FormatLeft(row.company_name, ColumnWidth),
     product_name |-> FormatLeft(row.product_name, ProductWidth)]

\* the lines between the two separators of the report, in the order of rows
LedgerReport(rows) == [i \in 1..Len(rows) |-> ReportLine(rows[i])]

\* ------------------------------------------------- replies in the workflow
ObjectDoc(layout, c, a, p, u) ==
    [kind |-> "object", layout |-> layout, company_name |-> c, amount_paid |-> a,
     product_name |-> p, num_units |-> u]

ValidDoc ==
    ObjectDoc("lines", Some(StrVal(<<" ", "A", " ">>)), Some(NumVal(Denominator + 1)),
              Some(StrVal(<<"G">>)), Some(NumVal(2 * Denominator)))
NoUnitsDoc ==
    ObjectDoc("line", Some(StrVal(<<"A">>)), Some(NumVal(Denominator + 1)),
              Some(StrVal(<<"G">>)), None)

WorkflowDocs == {ValidDoc, NoUnitsDoc, OtherDoc("junk")}

Texts == {"Amazon paid $40000 for 5 GPUs"}

\* a tool call of an assistant message
ToolCall(tool, text, c, a, p, u) ==
    [tool |-> tool, text |-> text, company_name |-> c, amount_paid |-> a,
     product_name |-> p, num_units |-> u]

ExtractCall(text) == ToolCall("extract_transaction_details", text, << >>, 0, << >>, 0)
LedgerCall == ToolCall("get_ledger_data", "", << >>, 0, << >>, 0)
InvoiceCall(c, a, p, u) == ToolCall("create_invoice", "", c, a, p, u)

\* ---------------------------------------------------------------- state
VARIABLES
    doc,             \* the document of the model reply under extraction
    wrap,            \* how the reply wraps it
    llm,             \* outcome of llm.ainvoke in extract_transaction_details
    extraction,      \* Optional: outcome of the last extract_transaction_details
    bodyExtraction,  \* Optional: outcome for the bare body of the same reply
    pc,              \* where chat_interface / the graph stands
    tableExists,     \* table Ledger exists in ledger_test.db
    ledger,          \* the rows of table Ledger, in rowid order
    clock,           \* CURRENT_TIMESTAMP at the last create_invoice, in seconds
    state,           \* the AgentState of the running invocation
    calls,           \* tool calls of the last assistant message, not yet run
    supersteps,      \* assistant steps taken in this invocation
    created,         \* Optional: dict returned by the last create_invoice
    listing,         \* Optional: rows read by the last get_ledger_data
    escaped,         \* Optional: the exception that left graph.ainvoke
    rowsAtStart,     \* history: rows in the ledger when the invocation began
    rowsBeforeCreate, \* history: rows when the last create_invoice began
    rowsAtListing,   \* history: rows when the last get_ledger_data read them
    requested,       \* history: tool calls requested in this invocation, by tool
    executed,        \* history: tool calls run in this invocation, by tool
    conn,            \* concurrent create_invoice calls: each call's connection
    writer,          \* the call whose connection holds the write lock, or 0
    api              \* the last call of a storage or extraction function

extractVars == << doc, wrap, llm, extraction, bodyExtraction >>
storeVars == << tableExists, ledger, clock >>
graphVars == << pc, state, calls, supersteps, created, listing, escaped >>
historyVars == << rowsAtStart, rowsBeforeCreate, rowsAtListing, requested, executed >>
concVars == << conn, writer >>
vars == << extractVars, storeVars, graphVars, historyVars, concVars, api >>

Tools == {"extract_transaction_details", "create_invoice", "get_ledger_data"}
NoCalls == [t \in Tools |-> 0]

RECURSIVE Sum(_, _)
Sum(f, S) == IF S = {} THEN 0 ELSE LET x == CHOOSE y \in S : TRUE IN f[x] + Sum(f, S \ {x})

\* rounds of tool calls after which graph.ainvoke gives up; every round asks
\* for at least one call
MaxSupersteps == MaxToolCalls

\* main.py 200-211
InitialState(text) ==
    [text |-> text, company_name |-> << >>, amount_paid |-> 0, product_name |-> << >>,
     num_units |-> 0, function_call_success |-> None, error_message |-> None,
     invoice_id |-> None, invoice_success |-> None]

NoLlm == [raised |-> "none", content |-> << >>]

\* no function called yet: the call, whether it raised, whether the storage
\* failed under it, whether the table existed when it began
NoApiCall == [call |-> "none", raised |-> FALSE, fault |-> FALSE, repeated |-> FALSE]

Callers == 1..NumCalls

\* a create_invoice call that has not started: no pending row, no lastrowid,
\* no result
NotStarted ==
    [pc |-> "start", row |-> None, lastrowid |-> None, invoice_id |-> None,
     result |-> None, concurrent |-> FALSE]

WorkflowIdle ==
    /\ pc = "boot"
    /\ tableExists = FALSE
    /\ ledger = << >>
    /\ clock = 0
    /\ state = InitialState("")
    /\ calls = << >>
    /\ supersteps = 0
    /\ created = None
    /\ listing = None
    /\ escaped = None
    /\ rowsAtStart = 0
    /\ rowsBeforeCreate = 0
    /\ rowsAtListing = 0
    /\ requested = NoCalls
    /\ executed = NoCalls
    /\ conn = [p \in Callers |-> NotStarted]
    /\ writer = 0
    /\ api = NoApiCall

\* ------------------------------------- extraction alone (pure function)
ExtractInit ==
    /\ doc \in Docs
    /\ wrap \in Wraps
    /\ llm \in {Reply(doc, wrap), ServiceFailure}
    /\ extraction = None
    /\ bodyExtraction = None
    /\ WorkflowIdle

ExtractReply ==
    /\ extraction = None
    /\ extraction' = Some(ExtractTransactionDetails(llm))
    /\ UNCHANGED << concVars, api, doc, wrap, llm, bodyExtraction, storeVars, graphVars, historyVars >>

ExtractBody ==
    /\ bodyExtraction = None
    /\ bodyExtraction' = Some(ExtractTransactionDetails(Reply(doc, "bare")))
    /\ UNCHANGED << concVars, api, doc, wrap, llm, extraction, storeVars, graphVars, historyVars >>

ExtractNext == ExtractReply \/ ExtractBody

ExtractSpec == ExtractInit /\ [][ExtractNext]_vars

\* ------------------------------------------------------------ the workflow
RECURSIVE SeqsUpTo(_, _)
SeqsUpTo(S, n) ==
    IF n = 0 THEN {<< >>}
    ELSE LET shorter == SeqsUpTo(S, n - 1)
         IN  shorter \cup {Append(q, x) : q \in shorter, x \in S}

\* arguments the assistant model may give create_invoice: the fields of the
\* last extraction result it was shown, or values of its own
OwnArgs == {InvoiceCall(<<"B">>, 2 * Denominator, << >>, 1)}
ShownArgs ==
    IF extraction # None /\ extraction[1].raised = "none"
    THEN LET d == extraction[1].ret[1]
         IN  {InvoiceCall(d.company_name, d.amount_paid, d.product_name, d.num_units)}
    ELSE {}

\* the tool calls llm_with_tools.invoke may return (main.py 99-101)
AssistantCalls == {ExtractCall(state.text), LedgerCall} \cup OwnArgs \cup ShownArgs

CountCalls(count, cs) ==
    [t \in Tools |-> count[t] + Cardinality({i \in 1..Len(cs) : cs[i].tool = t})]

\* the dict the assistant node returns besides its message (main.py 100-112)
AssistantReturn(st) ==
    [text |-> st.text, company_name |-> st.company_name, amount_paid |-> st.amount_paid,
     product_name |-> st.product_name, num_units |-> st.num_units,
     function_call_success |-> st.function_call_success,
     error_message |-> st.error_message, invoice_id |-> st.invoice_id,
     invoice_success |-> st.invoice_success]

Init ==
    /\ doc = OtherDoc("empty")
    /\ wrap = "bare"
    /\ llm = NoLlm
    /\ extraction = None
    /\ bodyExtraction = None
    /\ WorkflowIdle

\* main.py 171; tools.py 36-50
SetupDatabase ==
    /\ pc = "boot"
    /\ tableExists' = SetupDatabaseCall(tableExists, ledger, FALSE).hasTable
    /\ ledger' = SetupDatabaseCall(tableExists, ledger, FALSE).rows
    /\ pc' = "input"
    /\ UNCHANGED << concVars, api, extractVars, clock, state, calls, supersteps, created,
                    listing, escaped, historyVars >>

\* main.py 192-214: a line of input starts an invocation of the graph
UserInput ==
    /\ pc = "input"
    /\ \E text \in Texts : state' = InitialState(text)
    /\ pc' = "assistant"
    /\ calls' = << >>
    /\ supersteps' = 0
    /\ created' = None
    /\ listing' = None
    /\ doc' = OtherDoc("empty")
    /\ wrap' = "bare"
    /\ llm' = NoLlm
    /\ extraction' = None
    /\ rowsAtStart' = Len(ledger)
    /\ rowsBeforeCreate' = Len(ledger)
    /\ rowsAtListing' = Len(ledger)
    /\ requested' = NoCalls
    /\ executed' = NoCalls
    /\ UNCHANGED << concVars, api, bodyExtraction, storeVars, escaped >>

\* main.py 193-194
Quit ==
    /\ pc = "input"
    /\ pc' = "exited"
    /\ UNCHANGED << concVars, api, extractVars, storeVars, state, calls, supersteps, created, listing,
                    escaped, historyVars >>

\* main.py 101: the model call of the assistant node raises
AssistantFails ==
    /\ pc = "assistant"
    /\ pc' = "crashed"
    /\ escaped' = Some("ServiceError")
    /\ UNCHANGED << concVars, api, extractVars, storeVars, state, calls, supersteps, created, listing,
                    historyVars >>

\* main.py 100-112, 125-128: a message without tool calls; tools_condition
\* routes to END
AssistantAnswers ==
    /\ pc = "assistant"
    /\ state' = AssistantReturn(state)
    /\ pc' = "end"
    /\ UNCHANGED << concVars, api, extractVars, storeVars, calls, supersteps, created, listing,
                    escaped, historyVars >>

\* main.py 100-112, 125-128: a message with tool calls; tools_condition routes
\* to the tools node
AssistantCallsTools ==
    /\ pc = "assistant"
    /\ \E toolCalls \in SeqsUpTo(AssistantCalls, MaxToolCalls - Sum(requested, Tools)) \ {<< >>} :
            /\ calls' = toolCalls
            /\ requested' = CountCalls(requested, toolCalls)
    /\ state' = AssistantReturn(state)
    /\ supersteps' = supersteps + 1
    /\ pc' = "tools"
    /\ UNCHANGED << concVars, api, extractVars, storeVars, created, listing, escaped, rowsAtStart,
                    rowsBeforeCreate, rowsAtListing, executed >>

\* main.py 214: graph.ainvoke without recursion_limit stops a run that keeps
\* asking for tools with GraphRecursionError
RecursionLimit ==
    /\ pc = "assistant"
    /\ supersteps >= MaxSupersteps
    /\ pc' = "crashed"
    /\ escaped' = Some("GraphRecursionError")
    /\ UNCHANGED << concVars, api, extractVars, storeVars, state, calls, supersteps, created, listing,
                    historyVars >>

\* the tools node hands back a call it has not consumed
ToolNodeStepRerun(cs) == [calls |-> cs, pc |-> "tools"]

\* main.py 121, 129: the tools node runs each call of the message once, then
\* control goes back to the assistant
ToolNodeStep(cs) ==
    [calls |-> Tail(cs), pc |-> IF Tail(cs) = << >> THEN "assistant" ELSE "tools"]

\* what llm.ainvoke gives extract_transaction_details in the workflow
WorkflowOutcomes ==
    {[doc |-> d, wrap |-> "tagged", llm |-> Reply(d, "tagged")] : d \in WorkflowDocs}
        \cup {[doc |-> OtherDoc("empty"), wrap |-> "bare", llm |-> ServiceFailure]}

\* main.py 121 running tools.py 57-135.  An exception of the tool becomes an
\* error message for the assistant or leaves the graph, as the installed
\* ToolNode handles tool errors.
ToolExtract ==
    /\ pc = "tools"
    /\ calls # << >>
    /\ Head(calls).tool = "extract_transaction_details"
    /\ \E o \in WorkflowOutcomes, handled \in BOOLEAN :
            LET out == ExtractTransactionDetails(o.llm)
            IN  /\ doc' = o.doc
                /\ wrap' = o.wrap
                /\ llm' = o.llm
                /\ extraction' = Some(out)
                /\ IF out.raised = "none" \/ handled
                   THEN /\ pc' = ToolNodeStep(calls).pc
                        /\ calls' = ToolNodeStep(calls).calls
                        /\ escaped' = escaped
                   ELSE /\ pc' = "crashed"
                        /\ calls' = << >>
                        /\ escaped' = Some(out.raised)
    /\ executed' = [executed EXCEPT !["extract_transaction_details"] = @ + 1]
    /\ UNCHANGED << concVars, api, bodyExtraction, storeVars, state, supersteps, created, listing,
                    rowsAtStart, rowsBeforeCreate, rowsAtListing, requested >>

\* main.py 121 running tools.py 140-191, at a time not before the last insert
ToolCreateInvoice ==
    /\ pc = "tools"
    /\ calls # << >>
    /\ Head(calls).tool = "create_invoice"
    /\ Len(ledger) < MaxRows
    /\ \E fault \in StorageFaults, now \in clock..MaxClock :
            LET c == Head(calls)
                done == CreateInvoice(ledger, tableExists, now, c.company_name,
                                      c.amount_paid, c.product_name, c.num_units, fault)
            IN  /\ ledger' = done.rows
                /\ created' = Some(done.result)
                /\ clock' = now
    /\ rowsBeforeCreate' = Len(ledger)
    /\ executed' = [executed EXCEPT !["create_invoice"] = @ + 1]
    /\ pc' = ToolNodeStep(calls).pc
    /\ calls' = ToolNodeStep(calls).calls
    /\ UNCHANGED << concVars, api, extractVars, tableExists, state, supersteps, listing, escaped,
                    rowsAtStart, rowsAtListing, requested >>

\* main.py 121 running tools.py 196-233
ToolGetLedgerData ==
    /\ pc = "tools"
    /\ calls # << >>
    /\ Head(calls).tool = "get_ledger_data"
    /\ \E fault \in BOOLEAN :
            listing' = IF fault \/ ~tableExists THEN None
                       ELSE Some(OrderByTimestampDesc(ledger))
    /\ rowsAtListing' = Len(ledger)
    /\ executed' = [executed EXCEPT !["get_ledger_data"] = @ + 1]
    /\ pc' = ToolNodeStep(calls).pc
    /\ calls' = ToolNodeStep(calls).calls
    /\ UNCHANGED << concVars, api, extractVars, storeVars, state, supersteps, created, escaped,
                    rowsAtStart, rowsBeforeCreate, requested >>

\* main.py 216-218: the final state is printed; the loop asks for input again
PrintResult ==
    /\ pc = "end"
    /\ pc' = "input"
    /\ UNCHANGED << concVars, api, extractVars, storeVars, state, calls, supersteps, created, listing,
                    escaped, historyVars >>

Next ==
    \/ SetupDatabase
    \/ UserInput
    \/ Quit
    \/ AssistantFails
    \/ AssistantAnswers
    \/ AssistantCallsTools
    \/ RecursionLimit
    \/ ToolExtract
    \/ ToolCreateInvoice
    \/ ToolGetLedgerData
    \/ PrintResult

Spec == Init /\ [][Next]_vars

\* ------------------------------------------- concurrent create_invoice calls
\* Calls of separate invocations run the statements of tools.py 155-191 on
\* connections of their own, in any interleaving.  Caller p stores the
\* arguments CallArgs(p).
CallArgs(p) == InvoiceCall(<<"B">>, p * Denominator, << >>, p)

\* SQLite lets one connection at a time hold the write lock of the file
WriteLockIgnored(w) == TRUE
WriteLockFree(w) == w = 0

InFlight(c) == c.pc \notin {"start", "done"}

Failed(c) == [c EXCEPT !.pc = "done", !.row = None, !.result = Some(InvoiceFailed)]

ConcurrentInit ==
    /\ doc = OtherDoc("empty")
    /\ wrap = "bare"
    /\ llm = NoLlm
    /\ extraction = None
    /\ bodyExtraction = None
    /\ pc = "input"
    /\ tableExists = TRUE
    /\ ledger = << >>
    /\ clock = 0
    /\ state = InitialState("")
    /\ calls = << >>
    /\ supersteps = 0
    /\ created = None
    /\ listing = None
    /\ escaped = None
    /\ rowsAtStart = 0
    /\ rowsBeforeCreate = 0
    /\ rowsAtListing = 0
    /\ requested = NoCalls
    /\ executed = NoCalls
    /\ conn = [p \in Callers |-> NotStarted]
    /\ writer = 0
    /\ api = NoApiCall

\* tools.py 156-157: sqlite3.connect, or sqlite3.Error
Connect(p) ==
    /\ conn[p].pc = "start"
    /\ \E fault \in BOOLEAN :
            conn' = [conn EXCEPT ![p] =
                        IF fault THEN Failed(@)
                        ELSE [@ EXCEPT !.pc = "insert",
                                       !.concurrent = \E q \in Callers \ {p} : InFlight(conn[q])]]
    /\ UNCHANGED << api, extractVars, storeVars, graphVars, historyVars, writer >>

\* tools.py 159-165: the INSERT opens a transaction and takes the write lock;
\* the new row gets the next rowid and the current time and stays pending;
\* cursor.lastrowid is set.  While another connection holds the lock the
\* statement waits, or gives up with sqlite3.OperationalError.
Insert(p) ==
    /\ conn[p].pc = "insert"
    /\ \/ /\ WriteLockFree(writer)
          /\ \E now \in clock..MaxClock :
                LET a == CallArgs(p)
                    row == NewRow(ledger, now, a.company_name, a.amount_paid,
                                  a.product_name, a.num_units)
                IN  /\ conn' = [conn EXCEPT ![p] = [@ EXCEPT !.pc = "commit",
                                                             !.row = Some(row),
                                                             !.lastrowid = Some(row.id)]]
                    /\ clock' = now
          /\ writer' = p
       \/ /\ conn' = [conn EXCEPT ![p] = Failed(@)]
          /\ UNCHANGED << clock, writer >>
    /\ UNCHANGED << api, extractVars, tableExists, ledger, graphVars, historyVars >>

\* tools.py 166: conn.commit() makes the pending row durable and frees the
\* lock; on sqlite3.Error conn.close() (190-191) rolls the row back
Commit(p) ==
    /\ conn[p].pc = "commit"
    /\ \/ /\ ledger' = Append(ledger, conn[p].row[1])
          /\ conn' = [conn EXCEPT ![p] = [@ EXCEPT !.pc = "lastrowid", !.row = None]]
       \/ /\ conn' = [conn EXCEPT ![p] = Failed(@)]
          /\ UNCHANGED ledger
    /\ writer' = IF writer = p THEN 0 ELSE writer
    /\ UNCHANGED << api, extractVars, tableExists, clock, graphVars, historyVars >>

\* tools.py 168: invoice_id = cursor.lastrowid
ReadLastRowId(p) ==
    /\ conn[p].pc = "lastrowid"
    /\ conn' = [conn EXCEPT ![p] = [@ EXCEPT !.pc = "readback", !.invoice_id = conn[p].lastrowid]]
    /\ UNCHANGED << api, extractVars, storeVars, graphVars, historyVars, writer >>

\* tools.py 169-179: SELECT timestamp ... WHERE id = invoice_id, then the
\* success dict; or sqlite3.Error and the failure dict (181-188)
ReadTimestamp(p) ==
    /\ conn[p].pc = "readback"
    /\ \E fault \in BOOLEAN :
            LET id == conn[p].invoice_id[1]
                found == {i \in 1..Len(ledger) : ledger[i].id = id}
                ok == IF found = {}
                      THEN [InvoiceOk(id, 0) EXCEPT !.timestamp = None]
                      ELSE InvoiceOk(id, ledger[CHOOSE i \in found : TRUE].timestamp)
            IN  conn' = [conn EXCEPT ![p] =
                            IF fault THEN Failed(@)
                            ELSE [@ EXCEPT !.pc = "done", !.result = Some(ok)]]
    /\ UNCHANGED << api, extractVars, storeVars, graphVars, historyVars, writer >>

ConcurrentNext ==
    \E p \in Callers :
        \/ Connect(p)
        \/ Insert(p)
        \/ Commit(p)
        \/ ReadLastRowId(p)
        \/ ReadTimestamp(p)

ConcurrentSpec == ConcurrentInit /\ [][ConcurrentNext]_vars

\* ------------------------------------- the functions called in any order
\* setup_database, extract_transaction_details, create_invoice,
\* get_ledger_data and display_ledger called one after the other, in any
\* order and any number of times, on a database file that starts empty.
BlankCompanyDoc ==
    ObjectDoc("line", Some(StrVal(<<" ">>)), Some(NumVal(Denominator + 1)),
              Some(StrVal(<<"G">>)), Some(NumVal(2 * Denominator)))

StoreDocs == {ValidDoc, BlankCompanyDoc, OtherDoc("junk")}

StoreOutcomes ==
    {[doc |-> d, wrap |-> "tagged", llm |-> Reply(d, "tagged")] : d \in StoreDocs}
        \cup {[doc |-> OtherDoc("empty"), wrap |-> "bare", llm |-> ServiceFailure]}

\* arguments of create_invoice: short and long company names
StoreArgs ==
    {InvoiceCall(Name(n), Denominator, <<"G">>, 1) : n \in {1, ColumnWidth, MaxNameLen}}

ApiCall(call, raised, fault, repeated) ==
    [call |-> call, raised |-> raised, fault |-> fault, repeated |-> repeated]

StoreInit ==
    /\ doc = OtherDoc("empty")
    /\ wrap = "bare"
    /\ llm = NoLlm
    /\ extraction = None
    /\ bodyExtraction = None
    /\ WorkflowIdle

\* tools.py 23-50
CallSetupDatabase ==
    /\ \E fault \in BOOLEAN :
            LET done == SetupDatabaseCall(tableExists, ledger, fault)
            IN  /\ tableExists' = done.hasTable
                /\ ledger' = done.rows
                /\ api' = ApiCall("setup_database", done.raised, fault, tableExists)
    /\ UNCHANGED << extractVars, clock, graphVars, historyVars, concVars >>

\* tools.py 57-135
CallExtract ==
    /\ \E o \in StoreOutcomes :
            LET out == ExtractTransactionDetails(o.llm)
            IN  /\ doc' = o.doc
                /\ wrap' = o.wrap
                /\ llm' = o.llm
                /\ extraction' = Some(out)
                /\ api' = ApiCall("extract_transaction_details", out.raised # "none",
                                  FALSE, tableExists)
    /\ UNCHANGED << bodyExtraction, storeVars, graphVars, historyVars, concVars >>

\* tools.py 140-191
CallCreateInvoice ==
    /\ Len(ledger) < MaxRows
    /\ \E c \in StoreArgs, fault \in StorageFaults, now \in clock..MaxClock :
            LET done == CreateInvoice(ledger, tableExists, now, c.company_name,
                                      c.amount_paid, c.product_name, c.num_units, fault)
            IN  /\ ledger' = done.rows
                /\ created' = Some(done.result)
                /\ clock' = now
                /\ api' = ApiCall("create_invoice", FALSE, fault # "none", tableExists)
    /\ rowsBeforeCreate' = Len(ledger)
    /\ UNCHANGED << extractVars, tableExists, pc, state, calls, supersteps, listing,
                    escaped, rowsAtStart, rowsAtListing, requested, executed, concVars >>

\* the rows both listing functions read (tools.py 212-216, main.py 150-153)
SelectLedger(fault) ==
    /\ listing' = IF fault \/ ~tableExists THEN None ELSE Some(OrderByTimestampDesc(ledger))
    /\ rowsAtListing' = Len(ledger)
    /\ UNCHANGED << extractVars, storeVars, pc, state, calls, supersteps, created, escaped,
                    rowsAtStart, rowsBeforeCreate, requested, executed, concVars >>

\* tools.py 196-233: the report is returned, or the error text
CallGetLedgerData ==
    \E fault \in BOOLEAN :
        /\ SelectLedger(fault)
        /\ api' = ApiCall("get_ledger_data", FALSE, fault, tableExists)

\* main.py 147-165: the report is printed, or the error text
CallDisplayLedger ==
    \E fault \in BOOLEAN :
        /\ SelectLedger(fault)
        /\ api' = ApiCall("display_ledger", FALSE, fault, tableExists)

StoreNext ==
    \/ CallSetupDatabase
    \/ CallExtract
    \/ CallCreateInvoice
    \/ CallGetLedgerData
    \/ CallDisplayLedger

StoreSpec == StoreInit /\ [][StoreNext]_vars

\* ======================================================== extraction claims
Extracted == extraction[1]
ExtractedDict == Extracted.ret[1]
ExtractionReturned == extraction # None /\ Extracted.raised = "none"
\* Optional: the part of error_message before the exception text
ExtractionMessage ==
    IF ExtractedDict.error_message = None THEN None
    ELSE Some(ExtractedDict.error_message[1][1])
\* Optional: the exception text in error_message
ExtractionCause ==
    IF ExtractedDict.error_message = None THEN None
    ELSE Some(ExtractedDict.error_message[1][2])

Malformed(d) == d.kind \in {"junk", "empty"}
Missing(d, k) == d[k] = None
Present(d, k) == d[k] # None
Value(d, k) == d[k][1]

Blank(v) == v.ty = "str" /\ Strip(v.s, CharSpace) = << >>
Unconvertible(v) == v.ty = "null" \/ (v.ty = "str" /\ ~IsDecimal(Strip(v.s, CharSpace)))

WrongTyped(d, k) ==
    /\ Present(d, k)
    /\ CASE k \in {"company_name", "product_name"} -> Value(d, k).ty # "str"
         [] k = "amount_paid" -> Value(d, k).ty # "num"
         [] k = "num_units" ->
                Value(d, k).ty # "num" \/ Value(d, k).n % Denominator # 0

RequiredFields == {"company_name", "amount_paid", "product_name", "num_units"}

\* the reply is the JSON text itself, or that text between a fence line and a
\* closing fence line
WholeReply == llm.raised = "none" /\ wrap \in ClosedWraps \cup {"bare"}

\* C7 (as claimed): no outcome of the model call makes
\* extract_transaction_details raise: it always returns a result, and the
\* result is a failure (success false, an error message) when the call failed
\* or the reply is no JSON object.
C7_NoRawException ==
    extraction # None =>
        /\ Extracted.raised = "none"
        /\ (llm.raised # "none" \/ doc.kind # "object") =>
                (~ExtractedDict.success /\ ExtractionMessage # None)

\* C8 (as claimed): an unparseable reply always yields the "Invalid JSON"
\* result, and a well-formed JSON object with a missing or wrong-typed required
\* field always yields the "Data validation error" result, never success.
C8_ClassifiedByCause ==
    (extraction # None /\ WholeReply) =>
        /\ Malformed(doc) =>
                (ExtractionReturned /\ ExtractionMessage = Some(InvalidJson))
        /\ (doc.kind = "object"
                /\ \E k \in RequiredFields : Missing(doc, k) \/ WrongTyped(doc, k)) =>
                (ExtractionReturned /\ ExtractionMessage = Some(DataValidation))

\* what the code rejects in an object: no company name left after trimming,
\* or an amount_paid / num_units that float() / int() cannot convert
Unusable(d) ==
    \/ Missing(d, "company_name")
    \/ Blank(Value(d, "company_name"))
    \/ Present(d, "amount_paid") /\ Unconvertible(Value(d, "amount_paid"))
    \/ Present(d, "num_units") /\ Unconvertible(Value(d, "num_units"))

\* C8 (amended): an unparseable reply always yields the "Invalid JSON" result.
\* A JSON object whose company_name is missing or blank, or whose amount_paid
\* or num_units is present but not convertible (null, non-numeric string),
\* never yields success, and yields "Data validation error" when the reply is
\* the bare JSON or properly fenced.  Any other object of such a reply yields
\* success: a missing amount_paid, product_name or num_units takes its default.
C8_ClassifiedByCauseAmended ==
    (extraction # None /\ llm.raised = "none") =>
        /\ Malformed(doc) =>
                (ExtractionReturned /\ ExtractionMessage = Some(InvalidJson))
        /\ (doc.kind = "object" /\ Unusable(doc)) =>
                /\ ExtractionReturned
                /\ ~ExtractedDict.success
                /\ WholeReply => ExtractionMessage = Some(DataValidation)
        /\ (doc.kind = "object" /\ ~Unusable(doc) /\ WholeReply) =>
                /\ ExtractionReturned
                /\ ExtractedDict.success
                /\ Missing(doc, "amount_paid") => ExtractedDict.amount_paid = 0
                /\ Missing(doc, "num_units") => ExtractedDict.num_units = 0
                /\ Missing(doc, "product_name") => ExtractedDict.product_name = << >>

\* a fenced object with an unconvertible num_units was classified
C8_Witness ==
    /\ extraction # None
    /\ wrap = "tagged"
    /\ doc.kind = "object"
    /\ doc.company_name = Some(StrVal(<<"A">>))
    /\ doc.num_units = Some(StrVal(<<"x">>))
    /\ ExtractionReturned
    /\ ExtractionMessage = Some(DataValidation)

\* no company name is left after trimming
NoCompany(d) == Missing(d, "company_name") \/ Blank(Value(d, "company_name"))
BadAmount(d) == Present(d, "amount_paid") /\ Unconvertible(Value(d, "amount_paid"))
BadUnits(d) == Present(d, "num_units") /\ Unconvertible(Value(d, "num_units"))

\* C11 (as claimed): the company_name rule is applied first and the first
\* failure wins: an object without a company name is reported as
\* "company_name is missing", whatever its amount_paid and num_units are.
C11_CompanyRuleFirst ==
    (extraction # None /\ WholeReply /\ doc.kind = "object" /\ NoCompany(doc)) =>
        /\ ExtractionReturned
        /\ ExtractionCause = Some(CompanyMissing)

\* C11 (amended): amount_paid is converted first, then num_units, and only
\* then is company_name checked; the first failure wins.  An object without a
\* company name is reported as "company_name is missing" exactly when both
\* conversions succeed, whatever the converted values are; otherwise the
\* conversion error of amount_paid, or else of num_units, is reported.  All
\* three are "Data validation error" results.
C11_ConversionsThenCompany ==
    (extraction # None /\ WholeReply /\ doc.kind = "object") =>
        /\ ExtractionReturned
        /\ BadAmount(doc) =>
                /\ ExtractionMessage = Some(DataValidation)
                /\ ExtractionCause \in {Some(FloatValueError), Some(FloatTypeError)}
        /\ (~BadAmount(doc) /\ BadUnits(doc)) =>
                /\ ExtractionMessage = Some(DataValidation)
                /\ ExtractionCause \in {Some(IntValueError), Some(IntTypeError)}
        /\ (~BadAmount(doc) /\ ~BadUnits(doc) /\ NoCompany(doc)) =>
                /\ ExtractionMessage = Some(DataValidation)
                /\ ExtractionCause = Some(CompanyMissing)

\* a blank company name together with an unconvertible amount_paid was
\* reported as the conversion error
C11_Witness ==
    /\ extraction # None
    /\ WholeReply
    /\ doc.kind = "object"
    /\ doc.company_name = Some(StrVal(<<" ">>))
    /\ doc.amount_paid = Some(StrVal(<<"x">>))
    /\ ExtractionReturned
    /\ ExtractionCause = Some(FloatValueError)

\* C19: a failed extraction exposes no partially parsed record: a result with
\* success false has company_name "", amount_paid 0.0, product_name "" and
\* num_units 0, whichever fields of the reply had been parsed.
C19_NoPartialRecord ==
    (ExtractionReturned /\ ~ExtractedDict.success) =>
        /\ ExtractedDict.company_name = << >>
        /\ ExtractedDict.amount_paid = 0
        /\ ExtractedDict.product_name = << >>
        /\ ExtractedDict.num_units = 0

\* a reply whose company_name, amount_paid and product_name parse and whose
\* num_units does not convert gave a failure
C19_Witness ==
    /\ ExtractionReturned
    /\ ~ExtractedDict.success
    /\ wrap = "bare"
    /\ doc.kind = "object"
    /\ doc.company_name = Some(StrVal(<<"A">>))
    /\ doc.amount_paid = Some(NumVal(Denominator + 1))
    /\ doc.product_name = Some(StrVal(<<"G">>))
    /\ doc.num_units = Some(NullVal)

\* C10 (as claimed): a fenced reply yields what its bare body yields, with a
\* closing fence line (fenced, tagged, padded) and without one (unclosed).
C10_FenceTransparent ==
    (extraction # None /\ bodyExtraction # None /\ llm.raised = "none") =>
        extraction = bodyExtraction

\* ========================================================= workflow claims
ExtractionSucceeded == ExtractionReturned /\ ExtractedDict.success
ExtractionFailed == extraction # None /\ ~ExtractionSucceeded

\* the validation rules of the specification
ValidRecord(d) == d.company_name # << >> /\ d.amount_paid > 0 /\ d.num_units >= 1

RowsAdded == Len(ledger) - rowsAtStart
InvoiceSucceeded == created # None /\ created[1].success
InvoiceFailedNow == created # None /\ ~created[1].success

SameFields(row, d) ==
    /\ row.company_name = d.company_name
    /\ row.amount_paid = d.amount_paid
    /\ row.product_name = d.product_name
    /\ row.num_units = d.num_units

\* C1 (as claimed): a record that fails a validation rule is never inserted:
\* once extraction has produced such a record, no row the invocation added to
\* the ledger holds its fields.
C1_InvalidNeverInserted ==
    (pc \in {"assistant", "tools", "end"} /\ ExtractionSucceeded /\ ~ValidRecord(ExtractedDict))
        => \A i \in (rowsAtStart + 1)..Len(ledger) : ~SameFields(ledger[i], ExtractedDict)

\* C2 (as claimed): when a valid record was extracted and the store refused
\* nothing, the invocation ends with a successful insert whose row has exactly
\* the extracted fields.
C2_RoundTrip ==
    (pc = "end" /\ ExtractionSucceeded /\ ValidRecord(ExtractedDict) /\ ~InvoiceFailedNow)
        => /\ InvoiceSucceeded
           /\ \E i \in 1..Len(ledger) :
                /\ Some(ledger[i].id) = created[1].invoice_id
                /\ SameFields(ledger[i], ExtractedDict)

C4_PersistOnlyAfterExtraction ==
    (pc = "tools" /\ calls # << >> /\ Head(calls).tool = "create_invoice")
        => ExtractionSucceeded

\* C5 (as claimed): the final state carries the outcome: the id and success
\* status of a successful insert, an error message when a stage failed, and
\* never invoice_id, invoice_success and error_message all unset once a stage
\* has run.
C5_FinalStateCarriesOutcome ==
    (pc = "end" /\ executed["extract_transaction_details"] + executed["create_invoice"] > 0)
        => /\ InvoiceSucceeded =>
                (state.invoice_id = created[1].invoice_id /\ state.invoice_success = Some(TRUE))
           /\ (ExtractionFailed \/ InvoiceFailedNow) => state.error_message # None
           /\ ~(state.invoice_id = None /\ state.invoice_success = None
                    /\ state.error_message = None)

\* C6 (as claimed): a create_invoice call that returns a failure result has
\* written no row.
C6_AllOrNothing ==
    InvoiceFailedNow => Len(ledger) = rowsBeforeCreate

\* C9 (as claimed): the listing holds every row the ledger had when it was
\* read, newest timestamp first, rows of one timestamp in reverse insertion
\* order.
C9_ListingNewestFirst ==
    listing # None =>
        /\ Len(listing[1]) = rowsAtListing
        /\ \A i, j \in 1..Len(listing[1]) :
                i < j => \/ listing[1][i].timestamp > listing[1][j].timestamp
                         \/ /\ listing[1][i].timestamp = listing[1][j].timestamp
                            /\ listing[1][i].id > listing[1][j].id

\* ====================================================== concurrency claims
Succeeded(p) == conn[p].result # None /\ conn[p].result[1].success

\* C12: for every interleaving of the steps of concurrent create_invoice calls,
\* every call that reports success returns an id no other call returns, and
\* exactly one ledger row has that id and it holds that call's arguments.
C12_NoClobbering ==
    \A p \in Callers :
        Succeeded(p) =>
            /\ \A q \in Callers \ {p} :
                    Succeeded(q) => conn[q].result[1].invoice_id # conn[p].result[1].invoice_id
            /\ \E i \in 1..Len(ledger) :
                    /\ Some(ledger[i].id) = conn[p].result[1].invoice_id
                    /\ SameFields(ledger[i], CallArgs(p))
                    /\ conn[p].result[1].timestamp = Some(ledger[i].timestamp)
                    /\ \A j \in 1..Len(ledger) : ledger[j].id = ledger[i].id => j = i

\* two calls that ran at the same time both reported success
C12_Witness ==
    /\ Succeeded(1)
    /\ Succeeded(2)
    /\ conn[2].concurrent
    /\ conn[1].result[1].invoice_id = Some(2)

\* ========================================================== storage claims
\* C13: ids are assigned by the store (a call carries no id), no two rows
\* share an id, and a successful insert gets an id strictly larger than every
\* id assigned before it.
C13_IdsUniqueMonotonic ==
    /\ \A i, j \in 1..Len(ledger) : i < j => ledger[i].id < ledger[j].id
    /\ InvoiceSucceeded =>
            /\ rowsBeforeCreate < Len(ledger)
            /\ created[1].invoice_id = Some(ledger[rowsBeforeCreate + 1].id)
            /\ \A i \in 1..rowsBeforeCreate :
                    ledger[i].id < ledger[rowsBeforeCreate + 1].id

\* a second successful insert got the id 2
C13_Witness ==
    /\ api.call = "create_invoice"
    /\ InvoiceSucceeded
    /\ Len(ledger) = 2
    /\ created[1].invoice_id = Some(2)

\* C14: the ledger is append-only: every step keeps the rows it found, with
\* their ids, fields and timestamps, and only create_invoice adds a row; the
\* listing functions, setup_database and extraction leave the ledger as it is.
C14_AppendOnly ==
    [][/\ Len(ledger') >= Len(ledger)
       /\ SubSeq(ledger', 1, Len(ledger)) = ledger
       /\ api'.call # "create_invoice" => ledger' = ledger]_vars

\* two rows were listed by display_ledger
C14_Witness ==
    /\ api.call = "display_ledger"
    /\ listing # None
    /\ Len(listing[1]) = 2
    /\ Len(ledger) = 2

\* C15: setup_database on a database that has the table changes nothing,
\* before or after inserts: table, rows and what a listing shows stay, and the
\* call raises only if the storage itself fails.
C15_SetupIdempotent ==
    [][(api'.call = "setup_database" /\ tableExists) =>
            /\ tableExists'
            /\ ledger' = ledger
            /\ clock' = clock
            /\ OrderByTimestampDesc(ledger') = OrderByTimestampDesc(ledger)
            /\ api'.raised => api'.fault]_vars

\* setup_database ran again after an insert and did not fail
C15_Witness ==
    /\ api.call = "setup_database"
    /\ api.repeated
    /\ ~api.raised
    /\ Len(ledger) >= 1

\* C16 (as claimed): in the report the company_name column of every line is
\* exactly 18 characters: the name padded, or its first 18 characters.
C16_CompanyColumnFixedWidth ==
    listing # None =>
        \A i \in 1..Len(listing[1]) :
            LET name == listing[1][i].company_name
                column == LedgerReport(listing[1])[i].company_name
            IN  /\ Len(column) = ColumnWidth
                /\ \A k \in 1..ColumnWidth :
                        column[k] = IF k <= Len(name) THEN name[k] ELSE " "

\* C17: every result has one of the two shapes.  create_invoice: success iff
\* invoice_id is set iff error_message is unset, and invoice_success equals
\* success.  extract_transaction_details: success iff error_message is unset,
\* and function_call_success equals success.
C17_ResultShapes ==
    /\ created # None =>
            /\ created[1].success <=> created[1].invoice_id # None
            /\ created[1].success <=> created[1].error_message = None
            /\ created[1].invoice_success = created[1].success
    /\ ExtractionReturned =>
            /\ ExtractedDict.success <=> ExtractedDict.error_message = None
            /\ ExtractedDict.function_call_success = ExtractedDict.success

\* a failed extraction and a failed insert, with a row stored by an earlier call
C17_Witness ==
    /\ ExtractionReturned
    /\ ~ExtractedDict.success
    /\ created # None
    /\ ~created[1].success
    /\ Len(ledger) >= 1

\* C18 (as claimed): every invocation reaches END.  Nothing follows an
\* exception that leaves graph.ainvoke, so no invocation may stop that way.
C18_ReachesEnd ==
    pc # "crashed"

====
